---- MODULE Spec2Model ----
(***************************************************************************)
(* Compliance Gap Analyzer API (src/main.py).                              *)
(*                                                                         *)
(* Two specifications share this module:                                   *)
(*   SpecScorer  the pure function analyze_text applied to documents that  *)
(*               a caller revises by adding text in front or at the end;   *)
(*   Spec        the HTTP handlers upload_and_analyze (POST /api/analyze)  *)
(*               and list_analyses (GET /api/analyses) over the            *)
(*               persistence collaborator.                                 *)
(*                                                                         *)
(* Numbers that the program holds as Python floats with two decimals are   *)
(* held here as integers counting hundredths (0.33 is 33).  The float      *)
(* arithmetic of line 63 is modelled exactly, see fadd and roundMean.      *)
(***************************************************************************)
EXTENDS Integers, Sequences, FiniteSets, TLC

VARIABLES
    compensatedSum, \* the interpreter build: TRUE when the builtin sum() adds floats
                    \* with Neumaier compensation (CPython >= 3.12), FALSE when it
                    \* adds them left to right (CPython <= 3.11)
    text,           \* SpecScorer: the document handed to analyze_text
    pieces,         \* SpecScorer: how many pieces of the vocabulary text is made of
    pc,             \* SpecScorer: "input" before analyze_text ran, "scored" after
    report,         \* SpecScorer: the dict analyze_text returned for text
    pending,        \* Spec: POST /api/analyze requests suspended at `await file.read()`
    started,        \* Spec: number of POST /api/analyze requests received so far
    store,          \* Spec: the "analysis" collection of the persistence collaborator
    clock,          \* Spec: what datetime.utcnow() returns, a logical time
    response        \* Spec: the last HTTP response sent, with the request it answers

vars == <<compensatedSum, text, pieces, pc, report, pending, started, store, clock, response>>

scorerVars == <<text, pieces, pc, report>>
serviceVars == <<pending, started, store, clock, response>>

(***************************************************************************)
(* Bounds of the model.                                                    *)
(***************************************************************************)
MaxPieces == 3      \* a document is at most this many vocabulary pieces
MaxRequests == 2    \* POST /api/analyze requests received in one behaviour

(***************************************************************************)
(* The cluster table, lines 39-46.  A Python dict keeps insertion order:   *)
(* Labels is that order.                                                   *)
(***************************************************************************)
Labels == <<"privacy", "security", "governance", "retention", "training", "vendor">>

LabelSet == {Labels[i] : i \in 1..Len(Labels)}

clusters ==
    [l \in LabelSet |->
        CASE l = "privacy"    -> <<"privacy", "personal data", "pii", "consent", "gdpr", "ccpa">>
          [] l = "security"   -> <<"encryption", "access control", "key management",
                                   "vulnerability", "patch", "incident">>
          [] l = "governance" -> <<"risk", "policy", "procedure", "audit", "control", "evidence">>
          [] l = "retention"  -> <<"retention", "archiv", "delete", "erase", "data minimization">>
          [] l = "training"   -> <<"training", "awareness", "onboarding", "annual", "phishing">>
          [] l = "vendor"     -> <<"third party", "vendor", "processor", "subprocessor",
                                   "assessment">>]

(***************************************************************************)
(* str.lower(), line 48, on the ASCII letters the documents are written    *)
(* in: every upper-case letter becomes its lower-case letter, every other  *)
(* character stays.                                                        *)
(***************************************************************************)
UpperCase == "ABCDEFGHIJKLMNOPQRSTUVWXYZ"
LowerCase == "abcdefghijklmnopqrstuvwxyz"

LowerOf ==
    [c \in {SubSeq(UpperCase, i, i) : i \in 1..Len(UpperCase)} |->
        LET i == CHOOSE j \in 1..Len(UpperCase) : SubSeq(UpperCase, j, j) = c
        IN  SubSeq(LowerCase, i, i)]

lowerChar(c) == IF c \in DOMAIN LowerOf THEN LowerOf[c] ELSE c

RECURSIVE lowerRange(_, _, _)
lowerRange(s, i, j) ==
    IF i > j THEN ""
    ELSE IF i = j THEN lowerChar(SubSeq(s, i, i))
    ELSE LET m == (i + j) \div 2
         IN  lowerRange(s, i, m) \o lowerRange(s, m + 1, j)

lower(s) == IF s = "" THEN "" ELSE lowerRange(s, 1, Len(s))

(***************************************************************************)
(* `k in lower`, line 55: k occurs in s as a contiguous substring.         *)
(***************************************************************************)
In(k, s) == \E i \in 1..(Len(s) - Len(k) + 1) : SubSeq(s, i, i + Len(k) - 1) = k

\* hits as it would be if every occurrence of a marker counted
hitsEveryOccurrence(kws, low) ==
    Cardinality({ij \in (1..Len(kws)) \X (1..Len(low)) :
                    /\ ij[2] + Len(kws[ij[1]]) - 1 <= Len(low)
                    /\ SubSeq(low, ij[2], ij[2] + Len(kws[ij[1]]) - 1) = kws[ij[1]]})

\* hits as it would be if a marker had to be the whole text (`k == lower`)
hitsWholeText(kws, low) == Cardinality({i \in 1..Len(kws) : kws[i] = low})

\* line 55: hits = sum(1 for k in kws if k in lower)
hits(kws, low) == Cardinality({i \in 1..Len(kws) : In(kws[i], low)})

max(a, b) == IF a >= b THEN a ELSE b

(***************************************************************************)
(* round(num/den, 2) in hundredths, line 57: the nearest hundredth; a      *)
(* quotient exactly half way goes to the even hundredth.  (For the         *)
(* denominators 5 and 6 of the cluster table no quotient is half way, and  *)
(* the nearest double to num/den rounds like num/den itself.)              *)
(***************************************************************************)
\* round(score), the digits argument forgotten: whole numbers only
roundWhole(num, den) == IF 2 * num > den THEN 100 ELSE 0

\* the quotient cut off after two decimals instead of rounded
round2Down(num, den) == (100 * num) \div den

round2(num, den) ==
    LET q == (100 * num) \div den
        r == (100 * num) % den
    IN  IF 2 * r > den \/ (2 * r = den /\ q % 2 = 1) THEN q + 1 ELSE q

(***************************************************************************)
(* Line 63 adds the six rounded fractions as IEEE-754 doubles, divides by  *)
(* 6 and rounds to two decimals.  The doubles are not the decimals they    *)
(* print as, and when the exact mean lies half way between two hundredths  *)
(* the side the float lands on decides the result.  A double d is held as  *)
(* the pair [K, R] with d = K/100 + R/(100 * 2^55): K is the decimal in    *)
(* hundredths and R the representation error, a small integer.  Every      *)
(* double that occurs here is a multiple of 2^-55.                         *)
(***************************************************************************)

\* The double nearest k/100, for the values round(hits/n, 2) can take with n in {5, 6}.
double(k) ==
    [K |-> k,
     R |-> CASE k = 17 -> 44   [] k = 33 -> 56   [] k = 67 -> 144  [] k = 83 -> -144
             [] k = 20 -> 40   [] k = 40 -> 80   [] k = 60 -> -80  [] k = 80 -> 160
             [] OTHER -> 0]    \* 0, 0.5 and 1 are doubles

\* d >= t2/200, for a double d given as K, R and an integer t2
AtLeast(K, R, t2) == 2 * K > t2 \/ (2 * K = t2 /\ R >= 0)

\* The distance between neighbouring doubles around K/100, in units of 2^-55
\* (doubles in [1/8, 1/4) are 2^-55 apart, and twice as far in each next binade).
Spacing(K, R) ==
    IF AtLeast(K, R, 800) THEN 32
    ELSE IF AtLeast(K, R, 400) THEN 16
    ELSE IF AtLeast(K, R, 200) THEN 8
    ELSE IF AtLeast(K, R, 100) THEN 4
    ELSE IF AtLeast(K, R, 50) THEN 2
    ELSE 1

(***************************************************************************)
(* a + b in double arithmetic: the exact sum, rounded to the nearest       *)
(* double, a tie to the even one.  With N the exact sum in units of 2^-55, *)
(* 100 N = K 2^55 + R, hence 25 N = R/4 modulo 64 and N = 41 (R/4) modulo  *)
(* 64 (25 * 41 = 1025 = 1 modulo 64): the low bits of N follow from R.     *)
(***************************************************************************)
fadd(a, b) ==
    LET K == a.K + b.K
        R == a.R + b.R
        g == Spacing(K, R)
        n2g == ((41 * (R \div 4)) % 64) % (2 * g)
        rem == n2g % g
        d == IF 2 * rem < g THEN 0 - rem
             ELSE IF 2 * rem > g THEN g - rem
             ELSE IF n2g < g THEN 0 - rem ELSE g - rem
    IN  IF K = 0 THEN [K |-> 0, R |-> 0] ELSE [K |-> K, R |-> R + 100 * d]

\* sum(keyword_coverage.values()) where sum() adds left to right (CPython <= 3.11)
RECURSIVE fsumTo(_, _)
fsumTo(kc, n) ==
    IF n = 0 THEN [K |-> 0, R |-> 0]
    ELSE fadd(fsumTo(kc, n - 1), double(kc[Labels[n]]))

RECURSIVE exactErrTo(_, _)
exactErrTo(kc, n) == IF n = 0 THEN 0 ELSE exactErrTo(kc, n - 1) + double(kc[Labels[n]]).R

\* sum(keyword_coverage.values()) where sum() carries the rounding errors of the
\* additions along and adds them at the end (CPython >= 3.12)
fsumCompensated(kc) ==
    LET s == fsumTo(kc, Len(Labels))
    IN  fadd(s, [K |-> 0, R |-> exactErrTo(kc, Len(Labels)) - s.R])

fsum(kc, compensated) == IF compensated THEN fsumCompensated(kc) ELSE fsumTo(kc, Len(Labels))

Pow2Mod75(e) == (2 ^ (e % 20)) % 75      \* 2^20 = 1 modulo 75

(***************************************************************************)
(* round(s / 6, 2) in hundredths, for the double s = [K, R].  Unless K/6   *)
(* is half way between two hundredths the tiny error R cannot matter.      *)
(* Half way (K = 6m + 3), x = s/6 rounded to a double lies just above or   *)
(* just below t = K/600, and round() follows x.  In units of 2^-57 / 150   *)
(* the doubles around t are D = 150 g apart, t lies a above a double and   *)
(* the exact quotient lies a + R above it.                                 *)
(***************************************************************************)
roundMean(s) ==
    LET K == s.K
        R == s.R
        m == (K - 3) \div 6
        lg == IF AtLeast(K, R, 600) THEN 4
              ELSE IF AtLeast(K, R, 300) THEN 3
              ELSE IF AtLeast(K, R, 150) THEN 2
              ELSE IF AtLeast(K, R, 75) THEN 1
              ELSE 0
        g == 2 ^ lg
        D == 150 * g
        a2 == 4 * g * ((K * Pow2Mod75(53 - lg)) % 75)
        a == a2 % D
        b == a + R
        fl == b \div D
        r == b - fl * D
        x == IF 2 * r < D THEN fl * D
             ELSE IF 2 * r > D THEN (fl + 1) * D
             ELSE IF (fl + (a2 \div D)) % 2 = 0 THEN fl * D ELSE (fl + 1) * D
    IN  IF K % 6 # 3 THEN (K + 3) \div 6
        ELSE IF x > a THEN m + 1
        ELSE IF x < a THEN m
        ELSE IF m % 2 = 0 THEN m ELSE m + 1

(***************************************************************************)
(* analyze_text, lines 33-98.                                              *)
(***************************************************************************)

\* ', '.join(labels), line 75
RECURSIVE join(_, _)
join(sep, labels) ==
    IF Len(labels) = 0 THEN ""
    ELSE IF Len(labels) = 1 THEN labels[1]
    ELSE labels[1] \o sep \o join(sep, Tail(labels))

\* line 61
gapText(label) == "Missing any mention of " \o label \o " controls"

\* lines 67, 69, 71; the dash of the source (U+2014) is written "--" here
RockSolid == "rock-solid -- almost party-ready for auditors!"
Decent == "decent -- with a few rhythm breaks to smooth out."
WorkInProgress == "a work-in-progress -- let's add some shiny controls."

\* the tiers with `>` where the source has `>=`
vibeStrict(coverage_score) ==
    IF coverage_score > 75 THEN RockSolid
    ELSE IF coverage_score > 50 THEN Decent
    ELSE WorkInProgress

\* lines 66-71, on coverage_score in hundredths
vibe(coverage_score) ==
    IF coverage_score >= 75 THEN RockSolid
    ELSE IF coverage_score >= 50 THEN Decent
    ELSE WorkInProgress

\* lines 54-56: the hit count of every cluster; score = hits / max(len(kws), 1) is
\* positive exactly when hits is
clusterHits(low) == [l \in LabelSet |-> hits(clusters[l], low)]

\* line 58: `score > 0`, on the unrounded quotient nhits / max(len(kws), 1)
scorePositive(nhits, kws) == nhits * max(Len(kws), 1) > 0

\* lines 54-57: keyword_coverage[label] = round(score, 2)
coverageOf(nhits) == [l \in LabelSet |-> round2(nhits[l], max(Len(clusters[l]), 1))]

\* lines 58-59: the labels appended to present_labels, in dict order
presentLabels(nhits) == SelectSeq(Labels, LAMBDA l : scorePositive(nhits[l], clusters[l]))

\* lines 60-61: the gap strings, in dict order
gapsOf(nhits) ==
    LET missing == SelectSeq(Labels, LAMBDA l : ~scorePositive(nhits[l], clusters[l]))
    IN  [i \in 1..Len(missing) |-> gapText(missing[i])]

\* line 63, with len(keyword_coverage) = 6
coverageScore(keyword_coverage, compensated) == roundMean(fsum(keyword_coverage, compensated))

\* the summary without the 'none yet' fallback of line 75
summaryNoFallback(coverage_score, present_labels) ==
    "Your compliance groove is " \o vibe(coverage_score) \o " " \o "Highlights: "
        \o join(", ", present_labels)

\* lines 73-76
summaryOf(coverage_score, present_labels) ==
    "Your compliance groove is " \o vibe(coverage_score) \o " " \o "Highlights: "
        \o (IF Len(present_labels) > 0 THEN join(", ", present_labels) ELSE "none yet")

AdvisoryText ==
    [l \in LabelSet |->
        CASE l = "privacy" ->
               "Add a clear privacy section covering consent, PII handling and data rights."
          [] l = "security" ->
               "Document technical controls like encryption at rest/in transit and access policies."
          [] l = "governance" ->
               "Describe your risk assessment, audit cadence and evidence collection."
          [] l = "retention" -> "Define data retention schedules and deletion processes."
          [] l = "training" -> "Include security awareness and annual training details."
          [] l = "vendor" -> "Explain third-party risk management and vendor assessments."]

\* lines 79-91: the local list `recommendations`, which line 93 does not return
recommendationsLocal(keyword_coverage) ==
    LET low == SelectSeq(Labels, LAMBDA l : keyword_coverage[l] < 50)
    IN  [i \in 1..Len(low) |-> AdvisoryText[low[i]]]

\* the dict of lines 93-98
analyze_text(t, compensated) ==
    LET low == IF t # "" THEN lower(t) ELSE ""
        nhits == clusterHits(low)
        keyword_coverage == coverageOf(nhits)
        coverage_score == coverageScore(keyword_coverage, compensated)
    IN  [coverage_score |-> coverage_score,
         keyword_coverage |-> keyword_coverage,
         gaps |-> gapsOf(nhits),
         summary |-> summaryOf(coverage_score, presentLabels(nhits))]

(***************************************************************************)
(* SpecScorer: analyze_text on documents put together from a vocabulary.   *)
(* The vocabulary holds single markers, a marker in upper case, a marker   *)
(* that contains another cluster's marker ("access control"), two pieces   *)
(* that make a marker only when joined ("sub" + "processor"), a piece      *)
(* without any marker ("sub"), and two paragraphs that between them name   *)
(* every marker of every cluster.                                          *)
(***************************************************************************)
ParagraphA ==
    "Privacy: personal data, PII, consent, GDPR, CCPA. Encryption, access control, "
        \o "key management, vulnerability patch, incident. Risk policy, procedure, "
        \o "audit evidence. "
ParagraphB ==
    "Retention: archive, delete, erase, data minimization. Training: awareness, "
        \o "onboarding, annual phishing. Third party vendor, subprocessor assessment. "

Vocabulary ==
    {"encryption", " access control", "GDPR ", "sub", "processor", ParagraphA, ParagraphB}

NoReport == [coverage_score |-> -1, keyword_coverage |-> <<>>, gaps |-> <<>>, summary |-> ""]

InitService ==
    /\ pending = {}
    /\ started = 0
    /\ store = <<>>
    /\ clock = 0
    /\ response = [kind |-> "none"]

InitScorer ==
    /\ compensatedSum \in BOOLEAN
    /\ text = ""
    /\ pieces = 0
    /\ pc = "input"
    /\ report = NoReport
    /\ InitService

\* analyze_text(text) on the document as it stands
Analyze ==
    /\ pc = "input"
    /\ pc' = "scored"
    /\ report' = analyze_text(text, compensatedSum)
    /\ UNCHANGED <<compensatedSum, text, pieces, serviceVars>>

\* the caller adds p at the end of the document and has the new document analysed
AnalyzeAppended(p) ==
    /\ pieces < MaxPieces
    /\ text' = text \o p
    /\ pieces' = pieces + 1
    /\ pc' = "scored"
    /\ report' = analyze_text(text', compensatedSum)
    /\ UNCHANGED <<compensatedSum, serviceVars>>

\* the caller adds p in front of the document and has the new document analysed
AnalyzePrepended(p) ==
    /\ pieces < MaxPieces
    /\ text' = p \o text
    /\ pieces' = pieces + 1
    /\ pc' = "scored"
    /\ report' = analyze_text(text', compensatedSum)
    /\ UNCHANGED <<compensatedSum, serviceVars>>

NextScorer ==
    \/ Analyze
    \/ \E p \in Vocabulary : AnalyzeAppended(p)
    \/ \E p \in Vocabulary : AnalyzePrepended(p)

SpecScorer == InitScorer /\ [][NextScorer]_vars

(***************************************************************************)
(* Properties of analyze_text, checked under SpecScorer.                   *)
(***************************************************************************)
Scored == pc = "scored"

\* the gap strings of the clusters in ls, in the order of ls
GapList(ls) == [i \in 1..Len(ls) |-> gapText(ls[i])]

\* the clusters, in the fixed order, whose reported fraction is zero / is positive
ReportedZero(r) == SelectSeq(Labels, LAMBDA l : r.keyword_coverage[l] = 0)
ReportedPositive(r) == SelectSeq(Labels, LAMBDA l : r.keyword_coverage[l] > 0)

\* a text whose only content is the markers "encryption" and "access control"
OnlyEncryptionAndAccessControl ==
    text \in {"encryption access control", " access controlencryption"}

\* C2 as stated: for a text whose only content is "encryption" and "access control",
\* security is 0.33, the other five clusters are 0, coverage_score is 0.06 and gaps
\* lists exactly the five other clusters.
C2_AsStated ==
    (Scored /\ OnlyEncryptionAndAccessControl) =>
        /\ report.keyword_coverage["security"] = 33
        /\ \A l \in LabelSet \ {"security"} : report.keyword_coverage[l] = 0
        /\ report.coverage_score = 6
        /\ report.gaps = GapList(<<"privacy", "governance", "retention", "training", "vendor">>)

\* C2 amended: for such a text security is 0.33, governance is 0.17 (its marker
\* "control" occurs inside "access control"), the other four clusters are 0,
\* coverage_score is 0.08 and gaps lists exactly privacy, retention, training, vendor.
C2_EncryptionAccessControl ==
    (Scored /\ OnlyEncryptionAndAccessControl) =>
        /\ report.keyword_coverage["security"] = 33
        /\ report.keyword_coverage["governance"] = 17
        /\ \A l \in LabelSet \ {"security", "governance"} : report.keyword_coverage[l] = 0
        /\ report.coverage_score = 8
        /\ report.gaps = GapList(<<"privacy", "retention", "training", "vendor">>)

C2_Witness == Scored /\ text = "encryption access control"

\* C6: for every analysed text each of the six keyword_coverage fractions lies in
\* [0, 1] and coverage_score lies in [0, 1].
C6_FractionsInUnitInterval ==
    Scored =>
        /\ DOMAIN report.keyword_coverage = LabelSet
        /\ \A l \in LabelSet : report.keyword_coverage[l] >= 0 /\ report.keyword_coverage[l] <= 100
        /\ report.coverage_score >= 0 /\ report.coverage_score <= 100

\* a text that repeats a paragraph naming all markers of a cluster, at full score
C6_Witness ==
    /\ Scored
    /\ pieces >= 3
    /\ \A l \in LabelSet : report.keyword_coverage[l] = 100
    /\ report.coverage_score = 100

\* C7: gaps holds, in the fixed cluster order, exactly one entry "Missing any mention
\* of {cluster} controls" for each cluster whose reported (rounded) fraction is 0 and
\* none for a cluster whose reported fraction is positive.
C7_GapsAreTheZeroFractions == Scored => report.gaps = GapList(ReportedZero(report))

\* a cluster with a single hit (0.17, the smallest positive fraction) next to gaps
C7_Witness ==
    /\ Scored
    /\ report.keyword_coverage["privacy"] = 17
    /\ Len(report.gaps) = 5

\* the tier text C8 assigns to a coverage_score
C8_Tier(score) ==
    CHOOSE t \in {RockSolid, Decent, WorkInProgress} :
        /\ (t = RockSolid) <=> (score >= 75)
        /\ (t = Decent) <=> (score >= 50 /\ score < 75)
        /\ (t = WorkInProgress) <=> (score < 50)

RECURSIVE C8_CommaList(_)
C8_CommaList(ls) ==
    IF ls = <<>> THEN ""
    ELSE IF Len(ls) = 1 THEN ls[1]
    ELSE C8_CommaList(SubSeq(ls, 1, Len(ls) - 1)) \o ", " \o ls[Len(ls)]

\* C8: the summary is "Your compliance groove is {tier} Highlights: {list}", the tier
\* chosen by coverage_score (>= 0.75, >= 0.5, below 0.5) and the list the ids of the
\* clusters with a positive fraction in the fixed order joined by ", ", or "none yet".
C8_SummaryText ==
    Scored =>
        report.summary =
            "Your compliance groove is " \o C8_Tier(report.coverage_score) \o " Highlights: "
                \o (IF ReportedPositive(report) = <<>> THEN "none yet"
                    ELSE C8_CommaList(ReportedPositive(report)))

\* a text exactly on the 0.5 threshold with three clusters to list
C8_Witness ==
    /\ Scored
    /\ report.coverage_score = 50
    /\ Len(ReportedPositive(report)) = 3

\* C9: for the empty string all six fractions are 0, coverage_score is 0, gaps names
\* all six clusters, the tier is work-in-progress and the highlights read "none yet".
C9_EmptyText ==
    (Scored /\ text = "") =>
        /\ \A l \in LabelSet : report.keyword_coverage[l] = 0
        /\ report.coverage_score = 0
        /\ report.gaps = GapList(Labels)
        /\ report.summary = "Your compliance groove is " \o WorkInProgress
                                \o " Highlights: none yet"

C9_Witness == Scored /\ text = "" /\ Len(report.gaps) = 6

\* a occurs in b as a contiguous substring
IsSubstring(a, b) == \E i \in 0..(Len(b) - Len(a)) : SubSeq(b, i + 1, i + Len(a)) = a

\* C10: when an analysed text is replaced by a text that contains it, no fraction and
\* not the coverage_score gets smaller, and every gap of the new report was a gap of
\* the old one.
C10_Monotone ==
    [][(Scored /\ Scored' /\ IsSubstring(text, text')) =>
          /\ \A l \in LabelSet : report'.keyword_coverage[l] >= report.keyword_coverage[l]
          /\ report'.coverage_score >= report.coverage_score
          /\ \A i \in 1..Len(report'.gaps) :
                \E j \in 1..Len(report.gaps) : report.gaps[j] = report'.gaps[i]]_vars

\* an analysed text that grew out of analysed texts and kept a gap while scoring
C10_Witness ==
    /\ Scored
    /\ pieces >= 2
    /\ report.coverage_score > 0
    /\ Len(report.gaps) > 0

(***************************************************************************)
(* Spec: the HTTP handlers.                                                *)
(*                                                                         *)
(* An Optional value is None (the empty tuple) or Some(v).  The uploaded   *)
(* bytes are a sequence of chunks, each a run of ASCII bytes or one byte   *)
(* 0xFF, which no UTF-8 text contains.                                     *)
(***************************************************************************)
None == <<>>
Some(v) == <<v>>

Ascii(str) == [valid |-> TRUE, data |-> str]
BadByte == [valid |-> FALSE, data |-> "FF"]

\* len(content_bytes), lines 131 and 144
RECURSIVE len(_)
len(bytes) ==
    IF bytes = <<>> THEN 0
    ELSE (IF Head(bytes).valid THEN Len(Head(bytes).data) ELSE 1) + len(Tail(bytes))

\* content_bytes.decode(errors="ignore"), line 118: the bytes that are no UTF-8 are
\* dropped, the ASCII bytes are the characters of the text
RECURSIVE decode(_)
decode(bytes) ==
    IF bytes = <<>> THEN ""
    ELSE (IF Head(bytes).valid THEN Head(bytes).data ELSE "") \o decode(Tail(bytes))

\* `a or b` for an Optional[str] a and a str b, lines 132 and 145
orElse(a, b) == IF a = None \/ a = Some("") THEN b ELSE a[1]

\* the uploads the clients send: the file part (bytes, filename, declared MIME type)
\* and the form field doc_title
Contents ==
    {<<>>,
     <<Ascii("Enc"), BadByte, Ascii("ryption and Access Control")>>}

Uploads ==
    {[bytes |-> b, filename |-> f[1], content_type |-> f[2], doc_title |-> f[3]] :
        b \in Contents,
        f \in {<<Some("policy.txt"), Some("application/pdf"), "Security policy">>,
               <<None, None, "">>}}

DefaultLimit == 10      \* line 162

Encouragements ==
    <<"Celebrate the wins: compliance keeps users safe and builds trust.",
      "We smooth the annoying bits with templates, checklists and automation.">>

\* the opaque identifier the persistence collaborator gives the n-th record
Digits == "0123456789"
idOf(n) == "doc-" \o SubSeq(Digits, (n % 10) + 1, (n % 10) + 1)

\* create_document(collection, payload) when it succeeds: one record is added to the
\* collection and its identifier returned
create_document(st, payload) ==
    LET id == idOf(Len(st) + 1)
    IN  [store |-> Append(st, [_id |-> id] @@ payload), id |-> id]

\* get_documents("analysis", {}, limit) when it succeeds: up to limit records
get_documents(st, limit) == SubSeq(st, 1, IF limit < Len(st) THEN limit ELSE Len(st))

\* lines 128-135
payloadOf(u, analysis, now) ==
    [title |-> IF u.doc_title # "" THEN Some(u.doc_title) ELSE u.filename,
     filename |-> u.filename,
     size |-> len(u.bytes),
     mime_type |-> orElse(u.content_type, "text/plain"),
     analysis |-> analysis,
     uploaded_at |-> now]

\* the try block with create_document called again after it succeeded
tryPersistTwice(st, payload, dbOk) ==
    IF dbOk
    THEN LET first == create_document(st, payload)
             second == create_document(first.store, payload)
         IN  [store |-> second.store, inserted_id |-> Some(second.id)]
    ELSE [store |-> st, inserted_id |-> None]

\* lines 125-139: the collection and inserted_id after the try block; dbOk is whether
\* the import and create_document went through without an exception
tryPersist(st, payload, dbOk) ==
    IF dbOk
    THEN LET created == create_document(st, payload)
         IN  [store |-> created.store, inserted_id |-> Some(created.id)]
    ELSE [store |-> st, inserted_id |-> None]

\* datetime.isoformat() + "Z", line 146
isoZ(now) == [iso |-> now, suffix |-> "Z"]

\* lines 151-157
recommendationsOf(analysis) == analysis.gaps \o Encouragements

\* lines 141-158 under the model AnalyzeResponse of lines 20-30: id is Optional[str]
\* and may be None, filename is str and may not, so that a filename of None raises a
\* validation error, which leaves the handler as an unhandled exception (status 500)
AnalyzeResponse(inserted_id, u, analysis, now) ==
    IF u.filename = None
    THEN [status |-> 500, body |-> [detail |-> "Internal Server Error"]]
    ELSE [status |-> 200,
          body |-> [id |-> inserted_id,
                    filename |-> u.filename[1],
                    size |-> len(u.bytes),
                    mime_type |-> orElse(u.content_type, "text/plain"),
                    uploaded_at |-> isoZ(now),
                    summary |-> analysis.summary,
                    coverage_score |-> analysis.coverage_score,
                    keyword_coverage |-> analysis.keyword_coverage,
                    gaps |-> analysis.gaps,
                    recommendations |-> recommendationsOf(analysis)]]

\* lines 167-177
itemsOf(docs) ==
    [i \in 1..Len(docs) |->
        [id |-> docs[i]._id,
         title |-> docs[i].title,
         filename |-> docs[i].filename,
         size |-> docs[i].size,
         uploaded_at |-> isoZ(docs[i].uploaded_at),
         coverage_score |-> docs[i].analysis.coverage_score]]

InitSpec ==
    /\ compensatedSum \in BOOLEAN
    /\ text = ""
    /\ pieces = 0
    /\ pc = "input"
    /\ report = NoReport
    /\ InitService

\* POST /api/analyze arrives: the handler starts and waits at `await file.read()`
ReceiveUpload(u) ==
    /\ started < MaxRequests
    /\ started' = started + 1
    /\ pending' = pending \cup {[id |-> started + 1, upload |-> u]}
    /\ UNCHANGED <<compensatedSum, scorerVars, store, clock, response>>

\* lines 116-120: file.read() raises
ReadFails(r) ==
    /\ r \in pending
    /\ pending' = pending \ {r}
    /\ clock' = clock + 1
    /\ response' = [kind |-> "analyze", request |-> r, read |-> FALSE, persisted |-> FALSE,
                    status |-> 400, body |-> [detail |-> "Unable to read uploaded file"]]
    /\ UNCHANGED <<compensatedSum, scorerVars, started, store>>

\* lines 117-158 once the bytes are read: no await is left, the handler runs to its end.
\* Both readings of the clock (lines 134 and 146) fall into this one step.
AnalyzeUpload(r, dbOk) ==
    /\ r \in pending
    /\ pending' = pending \ {r}
    /\ clock' = clock + 1
    /\ LET u == r.upload
           analysis == analyze_text(decode(u.bytes), compensatedSum)
           saved == tryPersist(store, payloadOf(u, analysis, clock'), dbOk)
           sent == AnalyzeResponse(saved.inserted_id, u, analysis, clock')
       IN  /\ store' = saved.store
           /\ response' = [kind |-> "analyze", request |-> r, read |-> TRUE,
                           persisted |-> dbOk, status |-> sent.status, body |-> sent.body]
    /\ UNCHANGED <<compensatedSum, scorerVars, started>>

\* lines 161-180: GET /api/analyses
ListAnalyses(limit, dbOk) ==
    /\ response' = [kind |-> "list", status |-> 200,
                    body |-> [items |-> IF dbOk THEN itemsOf(get_documents(store, limit))
                                        ELSE <<>>]]
    /\ UNCHANGED <<compensatedSum, scorerVars, pending, started, store, clock>>

Next ==
    \/ \E u \in Uploads : ReceiveUpload(u)
    \/ \E r \in pending : ReadFails(r)
    \/ \E r \in pending, dbOk \in BOOLEAN : AnalyzeUpload(r, dbOk)
    \/ \E limit \in {1, DefaultLimit}, dbOk \in BOOLEAN : ListAnalyses(limit, dbOk)

Spec == InitSpec /\ [][Next]_vars

(***************************************************************************)
(* Properties of the HTTP handlers, checked under Spec.                    *)
(***************************************************************************)

\* the last response answers a POST /api/analyze whose bytes were read
AnalyzedResponse == response.kind = "analyze" /\ response.read

\* what analyze_text returns for the upload of the last response
AnalysisOfRequest == analyze_text(decode(response.request.upload.bytes), compensatedSum)

\* C1 as stated: the recommendations of a report are the advisory sentence of every
\* cluster whose fraction is below 0.5, in the fixed cluster order, then the gaps, then
\* the two encouragement sentences.
C1_AsStated ==
    (AnalyzedResponse /\ response.status = 200) =>
        response.body.recommendations =
            recommendationsLocal(response.body.keyword_coverage)
                \o response.body.gaps \o Encouragements

\* C3 as stated: when persistence fails the request still returns a successful
\* response, with id null and with the summary, coverage_score, keyword_coverage and
\* gaps that the analysis of the same upload gives when persistence succeeds.
C3_AsStated ==
    (AnalyzedResponse /\ ~response.persisted) =>
        /\ response.status = 200
        /\ response.body.id = None
        /\ response.body.summary = AnalysisOfRequest.summary
        /\ response.body.coverage_score = AnalysisOfRequest.coverage_score
        /\ response.body.keyword_coverage = AnalysisOfRequest.keyword_coverage
        /\ response.body.gaps = AnalysisOfRequest.gaps

\* C4 as stated: a POST /api/analyze ends in an error only when reading the file
\* failed, and then with status 400 and the message "Unable to read uploaded file";
\* once the bytes are read it ends in a successful report, whatever the bytes, the
\* MIME type, the filename and the outcome of persistence.
C4_AsStated ==
    response.kind = "analyze" =>
        /\ ~response.read =>
              /\ response.status = 400
              /\ response.body = [detail |-> "Unable to read uploaded file"]
        /\ response.read => response.status = 200

\* the step ends the handler of request r
Completes(r) == r \in pending /\ r \notin pending'

\* C5: a step that ends a POST /api/analyze adds exactly one record, made from that
\* request's upload, when persistence succeeded and none when it failed or the read
\* failed; no other step changes the collection; a request is handled once; and the
\* records already stored stay as they are, in their places.
C5_RecordsCreatedOnceAndKept ==
    [][/\ Len(store') >= Len(store)
       /\ SubSeq(store', 1, Len(store)) = store
       /\ \A r \in pending' \ pending : r.id > started /\ r.id = started'
       /\ \A r \in pending : r.id <= started
       /\ IF \E r \in pending : Completes(r) /\ response'.read /\ response'.persisted
          THEN /\ Len(store') = Len(store) + 1
               /\ \E r \in pending :
                     /\ Completes(r)
                     /\ store'[Len(store')].filename = r.upload.filename
                     /\ store'[Len(store')].size = len(r.upload.bytes)
          ELSE store' = store]_vars

\* two records stored, then listed: the listing shows both and the collection is whole
C5_Witness ==
    /\ Len(store) = 2
    /\ response.kind = "list"
    /\ Len(response.body.items) = 2

====
